---- MODULE Spec2Model ----
(***************************************************************************)
(* LiveNavigation (src/src/main.ts, the class at lines 509-908): the       *)
(* turn-by-turn session with spoken turn alerts and proximity tones.       *)
(*                                                                         *)
(* Locations are points of one meridian, named by their arc position in    *)
(* centimetres; on a meridian the haversine distance of calculateDistance  *)
(* is the arc length between the two points.  Distances are therefore      *)
(* integers in centimetres.  metersToFeet multiplies by 3.28084; with      *)
(* centimetres in, that is cm * 82021 / 2500000 feet, so feet are held as  *)
(* integers in units of 1/2500000 ft and every comparison is exact.        *)
(* Times are milliseconds.                                                 *)
(***************************************************************************)
EXTENDS Integers, Sequences, FiniteSets, TLC

(***************************************************************************)
(* Program constants (fields of LiveNavigation).                           *)
(***************************************************************************)
arrivalThreshold == 20
turnAlert100Feet == 100
turnAlert20Feet == 20
beepStartMeters == 200
beepPeriodMs == 2000
FeetPerCmNum == 82021
FeetScale == 2500000
TickMs == 1000

(***************************************************************************)
(* Bounds of the model.                                                    *)
(***************************************************************************)
MaxTicks == 2
MaxCount == 2
MaxInFlight == 2
MaxTimers == 3

(***************************************************************************)
(* Inputs.  A step carries the fields the class reads: end_location,       *)
(* maneuver ("" when the provider gave none) and, for html_instructions,   *)
(* the set of the phrases searched for that its lower-cased text contains. *)
(***************************************************************************)
RouteOneTurn ==
    << [end_location |-> 20000, maneuver |-> "turn-left", html |-> {"turn left"}] >>

RouteTwoSteps ==
    << [end_location |-> 19543, maneuver |-> "", html |-> {}],
       [end_location |-> 20000, maneuver |-> "turn-right", html |-> {"turn right"}] >>

RouteThreeSteps ==
    << [end_location |-> 8000, maneuver |-> "", html |-> {"turn left"}],
       [end_location |-> 19238, maneuver |-> "straight", html |-> {}],
       [end_location |-> 19909, maneuver |-> "turn-right", html |-> {"turn left"}] >>

RouteSet == { <<>>, RouteOneTurn, RouteTwoSteps, RouteThreeSteps }

\* getFallbackRouteData: three steps, the first without a maneuver, then
\* turn-right and turn-left; the bold tags of their texts keep the searched
\* phrases from matching.  The ends are laid on the model's meridian.
FallbackRouteData ==
    << [end_location |-> 8000, maneuver |-> "", html |-> {}],
       [end_location |-> 19238, maneuver |-> "turn-right", html |-> {}],
       [end_location |-> 19909, maneuver |-> "turn-left", html |-> {}] >>

\* what the provider does with one fetch: answers with a route, is not
\* called for want of an API key, or fails (HTTP error, status not OK, no
\* routes, an exception)
ProviderOutcomes ==
    { [kind |-> "ok", steps |-> route] : route \in RouteSet }
    \cup { [kind |-> kind, steps |-> <<>>] : kind \in {"noKey", "failed"} }

FetchRouteData(provider) ==
    IF provider.kind = "ok" THEN provider.steps ELSE FallbackRouteData

FixSet == { -1000, 0, 8000, 19238, 19543, 19909 }

\* the longitude (degrees) of the meridian the steps and the valid fixes lie on
MeridianLng == 0

At(lat) == [lat |-> lat, lng |-> MeridianLng]

\* fixes whose longitude is outside [-180, 180]
OutOfRangeSet == { [lat |-> 19909, lng |-> MeridianLng + 360] }

\* the values of the userLocation parameter
LocationSet == { At(lat) : lat \in FixSet } \cup OutOfRangeSet

\* what the audio collaborator does with the calls of one updateNavigation:
\* plays them, reports failure, throws, or is not attached at all
AudioOutcomes == { "ok", "failed", "threw", "unavailable" }

VARIABLES
    routeSteps,        \* RouteStep[]
    isRouteLoaded,     \* boolean
    currentStepIndex,  \* number, 0-based
    isActive,          \* boolean
    alertsShown,       \* { [stepIndex]: {alert100Feet, alert20Feet} }
    lastBeepTime,      \* ms, 0 = never
    now,               \* Date.now()
    out,               \* what the last operation returned and emitted
    spoken,            \* per step index: alerts spoken since that index was entered
    trail,             \* values of currentStepIndex since startNavigation
    arrivals,          \* destinationReached = true results since startNavigation
    scen,              \* progress of the five-fix scenario
    toneAt,            \* when the last tone of this active session was played, -1 = none
    \* the application driver (onSession)
    phase,               \* "connecting", "running", "idle", "disconnected"
    currentLocation,     \* the last fix of the location stream, NoLocation = null
    isNavigating,        \* boolean
    navigationInterval,  \* "off"; "due": its callback runs now; "waiting"
    calls,               \* the updateNavigation calls suspended at an await
    \* TurnGuidanceFramework (src/src/turn-guidance-framework.ts)
    guidance,            \* the fields of one instance
    timers,              \* the interval timers that are running
    guidanceOut,         \* the last operation and the alert it played
    \* the pure functions checked on their own
    bearing,             \* argument of bearingToDirection, tenths of a degree
    direction,           \* its result, "none" before the call
    stepInput,           \* a step and a distance given to the turn classification
    stepResult           \* isTurnStep, getTurnDirection and the alert spoken

navVars == << routeSteps, isRouteLoaded, currentStepIndex, isActive, alertsShown,
              lastBeepTime, now, out, spoken, trail, arrivals, scen, toneAt >>

driverVars == << phase, currentLocation, isNavigating, navigationInterval, calls >>

guidanceVars == << guidance, timers, guidanceOut >>

functionVars == << bearing, direction, stepInput, stepResult >>

vars == << routeSteps, isRouteLoaded, currentStepIndex, isActive, alertsShown,
           lastBeepTime, now, out, spoken, trail, arrivals, scen, toneAt,
           phase, currentLocation, isNavigating, navigationInterval, calls,
           guidance, timers, guidanceOut,
           bearing, direction, stepInput, stepResult >>

\* let currentLocation = null
NoLocation == -1

\* distanceToNextTurn: Infinity, larger than every distance
Infinity == 1000000

\* alertTimer: null
NoTimer == 0

NoGuidanceOut ==
    [ op |-> "none", d |-> 0, volume |-> 0, played |-> FALSE,
      location |-> -1, arrival |-> FALSE ]

(***************************************************************************)
(* Pure helpers of the class.                                              *)
(***************************************************************************)
\* haversine: with the longitudes a whole number of turns apart,
\* sin(dLng/2) is 0 and the distance is the arc between the latitudes
CalculateDistance(lat1, lng1, lat2, lng2) ==
    CASE (lng2 - lng1) % 360 = 0 -> IF lat1 >= lat2 THEN lat1 - lat2 ELSE lat2 - lat1

\* calculateDistance(userLocation.lat, userLocation.lng,
\*                   step.end_location.lat, step.end_location.lng)
DistanceToEnd(userLocation, step) ==
    CalculateDistance(userLocation.lat, userLocation.lng, step.end_location, MeridianLng)

MetersToFeet(d) == d * FeetPerCmNum

Feet(n) == n * FeetScale

Includes(step, phrase) == phrase \in step.html

IsTurnStep(step) ==
    \/ step.maneuver = "turn-left"
    \/ step.maneuver = "turn-right"
    \/ Includes(step, "turn left")
    \/ Includes(step, "turn right")

\* the direction read from the maneuver code only
GetTurnDirectionFromCode(step) ==
    IF step.maneuver = "turn-left" THEN "left"
    ELSE IF step.maneuver = "turn-right" THEN "right"
    ELSE "unknown"

GetTurnDirection(step) ==
    IF step.maneuver = "turn-left" \/ Includes(step, "turn left") THEN "left"
    ELSE IF step.maneuver = "turn-right" \/ Includes(step, "turn right") THEN "right"
    ELSE "unknown"

IsRouteReady == isRouteLoaded /\ Len(routeSteps) > 0

ClearAlerts == [alert100Feet |-> FALSE, alert20Feet |-> FALSE]

NoSpoken == [alert100Feet |-> 0, alert20Feet |-> 0]

Bump(n) == IF n < MaxCount THEN n + 1 ELSE n

\* routeSteps[this.currentStepIndex]; sequences are 1-based
StepAt(i) == routeSteps[i + 1]

NoOut ==
    [ op |-> "none", fix |-> 0, lng |-> MeridianLng, idx |-> 0, active |-> FALSE, turn |-> FALSE,
      d |-> 0, alert100 |-> FALSE, alert20 |-> FALSE, beep |-> -1,
      stepCompleted |-> FALSE, destinationReached |-> FALSE,
      statusDestinationReached |-> FALSE, say |-> "none", error |-> "none",
      audio |-> "none", repeat |-> FALSE, fetch |-> "none", step |-> -1 ]

ScenOff == [n |-> -1, far |-> {}, near |-> {}, done |-> {}]

InitNavigation ==
    /\ routeSteps = <<>>
    /\ isRouteLoaded = FALSE
    /\ currentStepIndex = 0
    /\ isActive = FALSE
    /\ alertsShown = <<>>
    /\ lastBeepTime = 0
    /\ now = beepPeriodMs
    /\ out = NoOut
    /\ spoken = <<>>
    /\ trail = <<>>
    /\ arrivals = 0
    /\ scen = ScenOff
    /\ toneAt = -1
    /\ phase = "connecting"
    /\ currentLocation = NoLocation
    /\ isNavigating = FALSE
    /\ navigationInterval = "off"
    /\ calls = {}

\* new TurnGuidanceFramework(session)
InitGuidance ==
    /\ guidance = [ isActive |-> FALSE, isNavigating |-> FALSE, route |-> <<>>,
                    currentSegmentIndex |-> 0, distanceToNextTurn |-> Infinity,
                    alertTimer |-> NoTimer, locationUnsubscribe |-> FALSE ]
    /\ timers = {}
    /\ guidanceOut = NoGuidanceOut

NoStepResult == [isTurn |-> FALSE, direction |-> "none", alert |-> "none"]

BearingIdle == bearing = 0 /\ direction = "none"

StepIdle ==
    /\ stepInput = [step |-> [end_location |-> 0, maneuver |-> "", html |-> {}],
                    distance |-> 0]
    /\ stepResult = NoStepResult

Init == InitNavigation /\ InitGuidance /\ BearingIdle /\ StepIdle

(***************************************************************************)
(* loadRouteData: the route and one fresh alert record per step on         *)
(* success; an empty, unloaded route when the fetch throws.  Keys of       *)
(* alertsShown beyond the new route are left as they were.                 *)
(***************************************************************************)
RearmAlerts(route) ==
    [ i \in (DOMAIN alertsShown) \cup (0 .. Len(route) - 1) |->
        IF i < Len(route) THEN ClearAlerts ELSE alertsShown[i] ]

LoadRouteDataOk(provider, op) ==
    /\ routeSteps' = FetchRouteData(provider)
    /\ alertsShown' = RearmAlerts(FetchRouteData(provider))
    /\ isRouteLoaded' = TRUE
    /\ out' = [NoOut EXCEPT !.op = op, !.fetch = provider.kind]
    /\ spoken' = [ i \in 0 .. Len(FetchRouteData(provider)) - 1 |-> NoSpoken ]
    /\ trail' = <<>>
    /\ arrivals' = 0
    /\ scen' = ScenOff
    /\ UNCHANGED << currentStepIndex, isActive, lastBeepTime, now, toneAt >>

LoadRouteDataFailed(op) ==
    /\ routeSteps' = <<>>
    /\ isRouteLoaded' = FALSE
    /\ out' = [NoOut EXCEPT !.op = op, !.error = "load failed"]
    /\ spoken' = <<>>
    /\ trail' = <<>>
    /\ arrivals' = 0
    /\ scen' = ScenOff
    /\ UNCHANGED << currentStepIndex, isActive, alertsShown, lastBeepTime, now,
                    toneAt >>

LoadRouteData ==
    \/ \E provider \in ProviderOutcomes : LoadRouteDataOk(provider, "load")
    \/ LoadRouteDataFailed("load")

RefreshRoute ==
    \/ \E provider \in ProviderOutcomes : LoadRouteDataOk(provider, "refresh")
    \/ LoadRouteDataFailed("refresh")

(***************************************************************************)
(* startNavigation / stopNavigation.                                       *)
(***************************************************************************)
StartIndex == 0

IsOneTurnStepRoute == Len(routeSteps) = 1 /\ IsTurnStep(routeSteps[1])

StartNavigation ==
    IF ~IsRouteReady
    THEN /\ out' = [NoOut EXCEPT !.op = "start", !.error = "route not loaded"]
         /\ scen' = ScenOff
         /\ UNCHANGED << routeSteps, isRouteLoaded, currentStepIndex, isActive,
                         alertsShown, lastBeepTime, now, spoken, trail, arrivals,
                         toneAt >>
    ELSE /\ currentStepIndex' = StartIndex
         /\ isActive' = TRUE
         /\ out' = [NoOut EXCEPT !.op = "start", !.say = "welcome"]
         /\ spoken' = [spoken EXCEPT ![StartIndex] = NoSpoken]
         /\ trail' = << StartIndex >>
         /\ arrivals' = 0
         /\ scen' = IF out.op \in {"load", "refresh"} /\ out.error = "none"
                       /\ IsOneTurnStepRoute
                    THEN [ScenOff EXCEPT !.n = 0]
                    ELSE ScenOff
         /\ UNCHANGED << routeSteps, isRouteLoaded, alertsShown, lastBeepTime, now,
                         toneAt >>

\* a stop that also rewinds the session to the first step
StopNavigationRewinding ==
    /\ isActive' = FALSE
    /\ lastBeepTime' = 0
    /\ currentStepIndex' = StartIndex
    /\ out' = [NoOut EXCEPT !.op = "stop"]
    /\ scen' = ScenOff
    /\ toneAt' = -1
    /\ UNCHANGED << routeSteps, isRouteLoaded, alertsShown,
                    now, spoken, trail, arrivals >>

StopNavigation ==
    /\ isActive' = FALSE
    /\ lastBeepTime' = 0
    /\ out' = [NoOut EXCEPT !.op = "stop"]
    /\ scen' = ScenOff
    /\ toneAt' = -1
    /\ UNCHANGED << routeSteps, isRouteLoaded, currentStepIndex, alertsShown,
                    now, spoken, trail, arrivals >>

(***************************************************************************)
(* The clock: time passes between operations.                              *)
(***************************************************************************)
Tick ==
    /\ now < beepPeriodMs + MaxTicks * TickMs
    /\ now' = now + TickMs
    /\ UNCHANGED << routeSteps, isRouteLoaded, currentStepIndex, isActive,
                    alertsShown, lastBeepTime, out, spoken, trail, arrivals, scen,
                    toneAt >>

(***************************************************************************)
(* getNavigationStatus: the snapshot for a fix.  The distance is measured  *)
(* to the end of routeSteps[currentStepIndex].                             *)
(***************************************************************************)
CurrentStepLookahead ==
    StepAt(IF currentStepIndex + 1 < Len(routeSteps)
           THEN currentStepIndex + 1 ELSE currentStepIndex)

CurrentStep == StepAt(currentStepIndex)

\* the threshold compared with the distance in metres instead of feet
IsStepCompletedInMeters(distanceInFeet) ==
    distanceInFeet \div FeetPerCmNum <= arrivalThreshold * 100

IsStepCompleted(distanceInFeet) == distanceInFeet <= Feet(arrivalThreshold)

StatusInactiveIndexOnly == currentStepIndex >= Len(routeSteps)

StatusInactive == ~isActive \/ currentStepIndex >= Len(routeSteps)

GetNavigationStatus(userLocation) ==
    IF StatusInactive
    THEN [ isActive |-> FALSE, distanceToStep |-> 0, distanceInFeet |-> 0,
           isStepCompleted |-> FALSE,
           isDestinationReached |-> currentStepIndex >= Len(routeSteps),
           isTurnStep |-> FALSE, turnDirection |-> "" ]
    ELSE LET distanceToStep == DistanceToEnd(userLocation, CurrentStep)
             distanceInFeet == MetersToFeet(distanceToStep)
         IN [ isActive |-> TRUE, distanceToStep |-> distanceToStep,
              distanceInFeet |-> distanceInFeet,
              isStepCompleted |-> IsStepCompleted(distanceInFeet),
              isDestinationReached |-> FALSE,
              isTurnStep |-> IsTurnStep(CurrentStep),
              turnDirection |-> GetTurnDirection(CurrentStep) ]

(***************************************************************************)
(* checkTurnAlerts: for a turn step, the proximity tone and the two spoken *)
(* alerts.  The result is the alert record and lastBeepTime it leaves and  *)
(* what it emitted (the tone's volume as a numerator over the beep range   *)
(* in centimetres, -1 for no tone).                                        *)
(***************************************************************************)
\* speakText and playBeep: "returned" when the call comes back to its caller,
\* "thrown" when an exception leaves it.  Both catch what the audio session
\* throws and return early when none is attached.
SpeakTextUncaught(audio) == IF audio = "threw" THEN "thrown" ELSE "returned"

SpeakText(audio) ==
    IF audio = "unavailable" THEN "returned"
    ELSE IF audio = "threw" THEN "returned"
    ELSE "returned"

PlayBeep(audio) ==
    IF audio = "unavailable" THEN "returned"
    ELSE IF audio = "threw" THEN "returned"
    ELSE "returned"

BeepDue(distanceToStep) ==
    /\ distanceToStep <= beepStartMeters * 100
    /\ now - lastBeepTime >= beepPeriodMs

\* distanceToStep / beepStartMeters: the "1 -" left out
BeepVolumeInverted(distanceToStep) ==
    IF distanceToStep > beepStartMeters * 100 THEN beepStartMeters * 100
    ELSE distanceToStep

\* 1 - distanceToStep / beepStartMeters, clamped to [0, 1] by playBeep
BeepVolume(distanceToStep) ==
    LET v == beepStartMeters * 100 - distanceToStep
    IN IF v < 0 THEN 0
       ELSE IF v > beepStartMeters * 100 THEN beepStartMeters * 100 ELSE v

Alert100DueNoFloor(distanceInFeet, rec) ==
    /\ distanceInFeet <= Feet(turnAlert100Feet)
    /\ ~rec.alert100Feet

\* the far alert without its already-shown test
Alert100DueAgain(distanceInFeet, rec) ==
    /\ distanceInFeet <= Feet(turnAlert100Feet)
    /\ distanceInFeet > Feet(turnAlert20Feet)

Alert100Due(distanceInFeet, rec) ==
    /\ distanceInFeet <= Feet(turnAlert100Feet)
    /\ distanceInFeet > Feet(turnAlert20Feet)
    /\ ~rec.alert100Feet

\* the near alert written as the else-branch of the far alert
Alert20DueUnlessFar(distanceInFeet, rec) ==
    /\ distanceInFeet <= Feet(turnAlert20Feet)
    /\ ~rec.alert20Feet
    /\ ~rec.alert100Feet

Alert20Due(distanceInFeet, rec) ==
    /\ distanceInFeet <= Feet(turnAlert20Feet)
    /\ ~rec.alert20Feet

Mark100Forgotten(rec) == rec

Mark100(rec) == [rec EXCEPT !.alert100Feet = TRUE]

Mark20(rec) == [rec EXCEPT !.alert20Feet = TRUE]

AlertsApplyAnyStep(step) == TRUE

AlertsApply(step) == IsTurnStep(step)

CheckTurnAlerts(userLocation, audio) ==
    LET quiet == [ alertsShown |-> alertsShown, lastBeepTime |-> lastBeepTime,
                   beep |-> -1, alert100 |-> FALSE, alert20 |-> FALSE,
                   thrown |-> FALSE ]
    IN IF currentStepIndex >= Len(routeSteps) THEN quiet
       ELSE IF ~AlertsApply(CurrentStep) THEN quiet
       ELSE
         LET distanceToStep == DistanceToEnd(userLocation, CurrentStep)
             distanceInFeet == MetersToFeet(distanceToStep)
             beeps == BeepDue(distanceToStep)
             beepThrown == beeps /\ PlayBeep(audio) = "thrown"
             rec0 == alertsShown[currentStepIndex]
             says100 == ~beepThrown /\ Alert100Due(distanceInFeet, rec0)
             thrown100 == says100 /\ SpeakText(audio) = "thrown"
             rec1 == IF says100 /\ ~thrown100 THEN Mark100(rec0) ELSE rec0
             says20 == ~beepThrown /\ ~thrown100 /\ Alert20Due(distanceInFeet, rec1)
             thrown20 == says20 /\ SpeakText(audio) = "thrown"
             rec2 == IF says20 /\ ~thrown20 THEN Mark20(rec1) ELSE rec1
         IN [ alertsShown |-> [alertsShown EXCEPT ![currentStepIndex] = rec2],
              lastBeepTime |-> IF beeps /\ ~beepThrown THEN now ELSE lastBeepTime,
              beep |-> IF beeps THEN BeepVolume(distanceToStep) ELSE -1,
              alert100 |-> says100, alert20 |-> says20,
              thrown |-> beepThrown \/ thrown100 \/ thrown20 ]

(***************************************************************************)
(* updateNavigation, one whole call.                                       *)
(***************************************************************************)
AdvanceIndexSkipping(i) == i + 2

\* the completion of the last step counted twice
AdvanceIndexPastEnd(i) == IF i + 1 >= Len(routeSteps) THEN i + 2 ELSE i + 1

AdvanceIndex(i) == i + 1

\* the five-fix scenario: 200 m, 120 m, 25 ft, 15 ft, 3 ft from the step end
ScenarioDistances == << 20000, 12000, 762, 457, 91 >>

ScenNext(d, far, near, done) ==
    IF scen.n >= 0 /\ scen.n < Len(ScenarioDistances)
       /\ d = ScenarioDistances[scen.n + 1]
    THEN [ n |-> scen.n + 1,
           far |-> IF far THEN scen.far \cup {scen.n + 1} ELSE scen.far,
           near |-> IF near THEN scen.near \cup {scen.n + 1} ELSE scen.near,
           done |-> IF done THEN scen.done \cup {scen.n + 1} ELSE scen.done ]
    ELSE ScenOff

CountSpoken(idx, a) ==
    IF idx \in DOMAIN spoken
    THEN [ spoken EXCEPT ![idx] =
             [ alert100Feet |-> IF a.alert100 THEN Bump(@.alert100Feet) ELSE @.alert100Feet,
               alert20Feet |-> IF a.alert20 THEN Bump(@.alert20Feet) ELSE @.alert20Feet ] ]
    ELSE spoken

UpdateNavigation(userLocation, audio) ==
    LET status == GetNavigationStatus(userLocation)
        base == [ NoOut EXCEPT !.op = "update", !.fix = userLocation.lat,
                               !.lng = userLocation.lng,
                               !.idx = currentStepIndex,
                               !.repeat = (out.op = "update"
                                           /\ out.fix = userLocation.lat
                                           /\ out.lng = userLocation.lng) ]
    IN
    IF ~status.isActive
    THEN /\ out' = [ base EXCEPT !.statusDestinationReached = status.isDestinationReached ]
         /\ scen' = IF scen.n >= 0
                    THEN ScenNext(DistanceToEnd(userLocation, routeSteps[1]),
                                  FALSE, FALSE, FALSE)
                    ELSE ScenOff
         /\ UNCHANGED << routeSteps, isRouteLoaded, currentStepIndex, isActive,
                         alertsShown, lastBeepTime, now, spoken, trail, arrivals,
                         toneAt >>
    ELSE
      LET a == CheckTurnAlerts(userLocation, audio)
          heard == CountSpoken(currentStepIndex, a)
          called == a.beep # -1 \/ a.alert100 \/ a.alert20
                    \/ status.isStepCompleted
          emitted == [ base EXCEPT !.active = TRUE, !.turn = status.isTurnStep,
                                   !.d = status.distanceToStep,
                                   !.alert100 = a.alert100, !.alert20 = a.alert20,
                                   !.beep = a.beep,
                                   !.audio = IF called THEN audio ELSE "none" ]
          next == AdvanceIndex(currentStepIndex)
          toneNow == IF a.beep # -1 THEN now ELSE toneAt
      IN
      /\ UNCHANGED << routeSteps, isRouteLoaded, now >>
      /\ IF a.thrown
         THEN \* an exception left checkTurnAlerts: the call is rejected there
              /\ alertsShown' = a.alertsShown
              /\ lastBeepTime' = a.lastBeepTime
              /\ out' = [ emitted EXCEPT !.error = "thrown" ]
              /\ spoken' = heard
              /\ toneAt' = toneNow
              /\ scen' = ScenOff
              /\ UNCHANGED << currentStepIndex, isActive, trail, arrivals >>
         ELSE IF ~status.isStepCompleted
         THEN /\ alertsShown' = a.alertsShown
              /\ lastBeepTime' = a.lastBeepTime
              /\ out' = emitted
              /\ spoken' = heard
              /\ toneAt' = toneNow
              /\ scen' = ScenNext(status.distanceToStep, a.alert100, a.alert20, FALSE)
              /\ UNCHANGED << currentStepIndex, isActive, trail, arrivals >>
         ELSE IF next >= Len(routeSteps)
         THEN \* destination reached: speak, stopNavigation()
              /\ currentStepIndex' = next
              /\ alertsShown' = a.alertsShown
              /\ spoken' = heard
              /\ trail' = IF trail = <<>> THEN trail ELSE Append(trail, next)
              /\ IF SpeakText(audio) = "thrown"
                 THEN /\ lastBeepTime' = a.lastBeepTime
                      /\ out' = [ emitted EXCEPT !.say = "arrived",
                                                 !.error = "thrown" ]
                      /\ toneAt' = toneNow
                      /\ scen' = ScenOff
                      /\ UNCHANGED << isActive, arrivals >>
                 ELSE /\ isActive' = FALSE
                      /\ lastBeepTime' = 0
                      /\ out' = [ emitted EXCEPT !.stepCompleted = TRUE,
                                                 !.destinationReached = TRUE,
                                                 !.statusDestinationReached = TRUE,
                                                 !.say = "arrived" ]
                      /\ toneAt' = -1
                      /\ arrivals' = IF trail = <<>> THEN arrivals ELSE Bump(arrivals)
                      /\ scen' = ScenNext(status.distanceToStep, a.alert100,
                                          a.alert20, TRUE)
         ELSE \* move to the next step with fresh alert flags
              /\ currentStepIndex' = next
              /\ alertsShown' = [a.alertsShown EXCEPT ![next] = ClearAlerts]
              /\ lastBeepTime' = a.lastBeepTime
              /\ spoken' = [heard EXCEPT ![next] = NoSpoken]
              /\ trail' = IF trail = <<>> THEN trail ELSE Append(trail, next)
              /\ toneAt' = toneNow
              /\ IF SpeakText(audio) = "thrown"
                 THEN /\ out' = [ emitted EXCEPT !.say = "next",
                                                 !.error = "thrown" ]
                      /\ scen' = ScenOff
                 ELSE /\ out' = [ emitted EXCEPT !.stepCompleted = TRUE,
                                                 !.say = "next" ]
                      /\ scen' = ScenNext(status.distanceToStep, a.alert100,
                                          a.alert20, TRUE)
              /\ UNCHANGED << isActive, arrivals >>

\* the audio outcomes that can be told apart: all of them when the call
\* reaches speakText or playBeep, one when it does not
AudioOutcomesOf(userLocation) ==
    LET status == GetNavigationStatus(userLocation)
        a == CheckTurnAlerts(userLocation, "ok")
    IN IF status.isActive
          /\ (a.beep # -1 \/ a.alert100 \/ a.alert20 \/ status.isStepCompleted)
       THEN AudioOutcomes
       ELSE {"ok"}

\* the operations of the class, called one at a time in any order
Next ==
    \/ LoadRouteData /\ UNCHANGED << driverVars, guidanceVars, functionVars >>
    \/ RefreshRoute /\ UNCHANGED << driverVars, guidanceVars, functionVars >>
    \/ StartNavigation /\ UNCHANGED << driverVars, guidanceVars, functionVars >>
    \/ StopNavigation /\ UNCHANGED << driverVars, guidanceVars, functionVars >>
    \/ \E userLocation \in LocationSet :
          \E audio \in AudioOutcomesOf(userLocation) :
              UpdateNavigation(userLocation, audio) /\ UNCHANGED << driverVars, guidanceVars, functionVars >>
    \/ Tick /\ UNCHANGED << driverVars, guidanceVars, functionVars >>

Spec == Init /\ [][Next]_vars

(***************************************************************************)
(* One session from its start to its arrival: the route is loaded and the  *)
(* session started once, then only fixes arrive, one update at a time.     *)
(* Approach is an update with a fix inside the arrival threshold of the    *)
(* current step; the fix stream delivers such a fix for each step in turn. *)
(***************************************************************************)
NotStarted == ~isActive /\ trail = <<>>

Approach ==
    /\ isActive
    /\ \E userLocation \in LocationSet :
          /\ GetNavigationStatus(userLocation).isStepCompleted
          /\ \E audio \in AudioOutcomesOf(userLocation) :
                UpdateNavigation(userLocation, audio)
    /\ UNCHANGED << driverVars, guidanceVars, functionVars >>

NextLive ==
    \/ NotStarted /\ LoadRouteData
          /\ UNCHANGED << driverVars, guidanceVars, functionVars >>
    \/ NotStarted /\ StartNavigation
          /\ UNCHANGED << driverVars, guidanceVars, functionVars >>
    \/ \E userLocation \in LocationSet :
          \E audio \in AudioOutcomesOf(userLocation) :
              UpdateNavigation(userLocation, audio)
                  /\ UNCHANGED << driverVars, guidanceVars, functionVars >>
    \/ Tick /\ UNCHANGED << driverVars, guidanceVars, functionVars >>

SpecLive == Init /\ [][NextLive]_vars /\ WF_vars(Approach)

(***************************************************************************)
(* The application driver with an audio session attached: every speak and  *)
(* playAudio is awaited, and while an updateNavigation is suspended there  *)
(* the event loop runs the other callbacks.  A call is run from its entry  *)
(* or from the await it resumes at up to its next await or its return.     *)
(* A suspended call keeps its locals: the fix, the status of its entry     *)
(* (isStepCompleted), the distance and the time read in checkTurnAlerts.   *)
(* What the audio session answers makes no difference to the class         *)
(* (speakText and playBeep catch), so it is not drawn here.                *)
(***************************************************************************)
Here ==
    [ idx |-> currentStepIndex, active |-> isActive, alerts |-> alertsShown,
      lastBeep |-> lastBeepTime ]

\* the call awaits the audio it has just dispatched
Suspended(s, pc) ==
    [ idx |-> s.idx, active |-> s.active, alerts |-> s.alerts,
      lastBeep |-> s.lastBeep, pc |-> pc, emit |-> pc, result |-> "none" ]

Returned(s, result) ==
    [ idx |-> s.idx, active |-> s.active, alerts |-> s.alerts,
      lastBeep |-> s.lastBeep, pc |-> "done", emit |-> "none", result |-> result ]

\* updateNavigation after checkTurnAlerts, up to the announcement
AfterAlerts(s, c) ==
    IF ~c.completed THEN Returned(s, "returned")
    ELSE LET next == AdvanceIndex(s.idx)
         IN IF next < Len(routeSteps)
            THEN Suspended([s EXCEPT !.idx = next,
                                     !.alerts = [@ EXCEPT ![next] = ClearAlerts]],
                           "next")
            ELSE Suspended([s EXCEPT !.idx = next], "arrived")

\* the 20 ft test reading the flag of a missing record as "not shown yet"
\* and passing on instead of throwing
Check20Unguarded(s, c) ==
    IF MetersToFeet(c.d) > Feet(turnAlert20Feet) THEN AfterAlerts(s, c)
    ELSE IF s.idx \notin DOMAIN s.alerts THEN AfterAlerts(s, c)
    ELSE IF Alert20Due(MetersToFeet(c.d), s.alerts[s.idx]) THEN Suspended(s, "say20")
    ELSE AfterAlerts(s, c)

\* alertsShown[this.currentStepIndex] of an index without a record is
\* undefined, and reading or writing its flag throws
Check20(s, c) ==
    IF MetersToFeet(c.d) > Feet(turnAlert20Feet) THEN AfterAlerts(s, c)
    ELSE IF s.idx \notin DOMAIN s.alerts THEN Returned(s, "thrown")
    ELSE IF Alert20Due(MetersToFeet(c.d), s.alerts[s.idx]) THEN Suspended(s, "say20")
    ELSE AfterAlerts(s, c)

Check100(s, c) ==
    IF ~(MetersToFeet(c.d) <= Feet(turnAlert100Feet)
         /\ MetersToFeet(c.d) > Feet(turnAlert20Feet)) THEN Check20(s, c)
    ELSE IF s.idx \notin DOMAIN s.alerts THEN Returned(s, "thrown")
    ELSE IF Alert100Due(MetersToFeet(c.d), s.alerts[s.idx]) THEN Suspended(s, "say100")
    ELSE Check20(s, c)

CallLocals(userLocation) ==
    LET status == GetNavigationStatus(At(userLocation))
    IN [ fix |-> userLocation, now |-> now, completed |-> status.isStepCompleted,
         d |-> status.distanceToStep, step |-> currentStepIndex ]

\* updateNavigation from its entry
Enter(c) ==
    IF StatusInactive THEN Returned(Here, "inactive")
    ELSE IF ~AlertsApply(CurrentStep) THEN AfterAlerts(Here, c)
    ELSE IF BeepDue(c.d) THEN Suspended(Here, "beep")
    ELSE Check100(Here, c)

\* updateNavigation from the await it was suspended at
Continue(c) ==
    CASE c.pc = "beep" -> Check100([Here EXCEPT !.lastBeep = c.now], c)
      [] c.pc = "say100" ->
           IF currentStepIndex \notin DOMAIN alertsShown THEN Returned(Here, "thrown")
           ELSE Check20([Here EXCEPT !.alerts =
                           [@ EXCEPT ![currentStepIndex] = Mark100(@)]], c)
      [] c.pc = "say20" ->
           IF currentStepIndex \notin DOMAIN alertsShown THEN Returned(Here, "thrown")
           ELSE AfterAlerts([Here EXCEPT !.alerts =
                               [@ EXCEPT ![currentStepIndex] = Mark20(@)]], c)
      [] c.pc = "arrived" ->
           Returned([Here EXCEPT !.active = FALSE, !.lastBeep = 0], "destinationReached")
      [] c.pc = "next" -> Returned(Here, "stepCompleted")

\* the fields the run leaves, what it dispatched, and the call if it is
\* suspended again; was is the callback as it was suspended before the run
RanFrom(r, was, c, op) ==
    /\ currentStepIndex' = r.idx
    /\ isActive' = r.active
    /\ alertsShown' = r.alerts
    /\ lastBeepTime' = r.lastBeep
    /\ out' = [ NoOut EXCEPT
                  !.op = op, !.fix = c.fix, !.idx = currentStepIndex,
                  !.active = isActive, !.d = c.d, !.step = c.step,
                  !.alert100 = (r.emit = "say100"),
                  !.alert20 = (r.emit = "say20"),
                  !.beep = IF r.emit = "beep" THEN BeepVolume(c.d) ELSE -1,
                  !.say = IF r.emit \in {"arrived", "next"} THEN r.emit ELSE "none",
                  !.stepCompleted = (r.result \in {"stepCompleted", "destinationReached"}),
                  !.destinationReached = (r.result = "destinationReached"),
                  !.error = IF r.result = "thrown" THEN "thrown" ELSE "none" ]
    /\ toneAt' = IF r.emit = "beep" THEN now
                 ELSE IF isActive /\ ~r.active THEN -1 ELSE toneAt
    /\ calls' = (calls \ {was}) \cup
                  (IF r.pc = "done" THEN {}
                   ELSE {[ fix |-> c.fix, now |-> c.now, completed |-> c.completed,
                           d |-> c.d, step |-> c.step, pc |-> r.pc ]})
    /\ arrivals' = IF r.result = "destinationReached" THEN Bump(arrivals)
                   ELSE arrivals
    /\ UNCHANGED << routeSteps, isRouteLoaded, now, spoken, trail, scen >>

Ran(r, c, op) == RanFrom(r, c, c, op)

\* onSession up to the subscription: the initial location, loadRouteData,
\* and, when the route is ready, the stream and the interval
Connect ==
    /\ phase = "connecting"
    /\ \E initialLocation \in FixSet :
          /\ currentLocation' = initialLocation
          /\ \/ \E provider \in ProviderOutcomes :
                   /\ LoadRouteDataOk(provider, "load")
                   /\ phase' = IF Len(FetchRouteData(provider)) > 0
                               THEN "running" ELSE "idle"
                   /\ navigationInterval' = IF Len(FetchRouteData(provider)) > 0
                                            THEN "waiting" ELSE "off"
             \/ /\ LoadRouteDataFailed("load")
                /\ phase' = "idle"
                /\ navigationInterval' = "off"
    /\ UNCHANGED << isNavigating, calls >>

\* onSession of index.ts up to the subscription: no initial location is
\* fetched, and the session returns when the route summary has no steps
ConnectWithoutLocation ==
    /\ phase = "connecting"
    /\ \/ \E provider \in ProviderOutcomes :
             /\ LoadRouteDataOk(provider, "load")
             /\ phase' = IF Len(FetchRouteData(provider)) > 0
                         THEN "running" ELSE "idle"
             /\ navigationInterval' = IF Len(FetchRouteData(provider)) > 0
                                      THEN "waiting" ELSE "off"
       \/ /\ LoadRouteDataFailed("load")
          /\ phase' = "idle"
          /\ navigationInterval' = "off"
    /\ UNCHANGED << currentLocation, isNavigating, calls >>

\* the guard of both callers of startNavigation, on the session's flag
\* of the class instead of the driver's own
ShouldStartWhenInactive == ~isActive

ShouldStart == ~isNavigating

\* the callback of subscribeToStream
OnLocation(data) ==
    /\ phase = "running"
    /\ currentLocation' = data
    /\ IF ShouldStart
       THEN /\ isNavigating' = TRUE
            /\ StartNavigation
       ELSE /\ out' = [NoOut EXCEPT !.op = "location", !.fix = data]
            /\ UNCHANGED << routeSteps, isRouteLoaded, currentStepIndex, isActive,
                            alertsShown, lastBeepTime, now, spoken, trail, arrivals,
                            scen, toneAt, isNavigating >>
    /\ UNCHANGED << phase, navigationInterval, calls >>

\* the callback of setInterval: a new updateNavigation(currentLocation),
\* whether or not an earlier one has returned
IntervalCallback ==
    /\ phase = "running"
    /\ navigationInterval = "due"
    /\ currentLocation # NoLocation
    /\ Cardinality(calls) < MaxInFlight
    /\ LET c == CallLocals(currentLocation)
           r == Enter(c)
       IN /\ Ran(r, c, "update")
          /\ navigationInterval' = IF r.result = "destinationReached" THEN "off"
                                   ELSE "waiting"
    /\ UNCHANGED << phase, currentLocation, isNavigating >>

\* the callback before its updateNavigation: awaiting getLatestLocation
\* or startNavigation
Awaiting(pc, at) ==
    [ fix |-> NoLocation, now |-> at, completed |-> FALSE, d |-> 0, step |-> -1,
      pc |-> pc ]

\* the callback of setInterval when the stream has delivered no location
\* yet: it awaits getLatestLocation
IntervalFallback ==
    /\ phase = "running"
    /\ navigationInterval = "due"
    /\ currentLocation = NoLocation
    /\ Cardinality(calls) < MaxInFlight
    /\ calls' = calls \cup {Awaiting("locating", now)}
    /\ navigationInterval' = "waiting"
    /\ out' = [NoOut EXCEPT !.op = "fallback"]
    /\ UNCHANGED << phase, currentLocation, isNavigating >>
    /\ UNCHANGED << routeSteps, isRouteLoaded, currentStepIndex, isActive,
                    alertsShown, lastBeepTime, now, spoken, trail, arrivals,
                    scen, toneAt >>

\* getLatestLocation has answered: the location is stored and, under the
\* guard, startNavigation is called and awaited; otherwise the callback
\* goes on to its updateNavigation
FallbackLocated(was, location) ==
    /\ was \in calls
    /\ was.pc = "locating"
    /\ currentLocation' = location
    /\ UNCHANGED phase
    /\ IF ShouldStart
       THEN /\ isNavigating' = TRUE
            /\ StartNavigation
            /\ calls' = (calls \ {was}) \cup {Awaiting("starting", was.now)}
            /\ UNCHANGED navigationInterval
       ELSE /\ UNCHANGED isNavigating
            /\ LET c == CallLocals(location)
                   r == Enter(c)
               IN /\ RanFrom(r, was, c, "update")
                  /\ navigationInterval' =
                        IF r.result = "destinationReached" THEN "off"
                        ELSE navigationInterval

\* getLatestLocation has rejected: the callback's catch ends it
FallbackFailed(was) ==
    /\ was \in calls
    /\ was.pc = "locating"
    /\ calls' = calls \ {was}
    /\ out' = [NoOut EXCEPT !.op = "fallback", !.error = "thrown"]
    /\ UNCHANGED << phase, currentLocation, isNavigating, navigationInterval >>
    /\ UNCHANGED << routeSteps, isRouteLoaded, currentStepIndex, isActive,
                    alertsShown, lastBeepTime, now, spoken, trail, arrivals,
                    scen, toneAt >>

\* the startNavigation the fallback awaited has returned: the callback
\* goes on to updateNavigation(currentLocation)
FallbackStarted(was) ==
    /\ was \in calls
    /\ was.pc = "starting"
    /\ LET c == CallLocals(currentLocation)
           r == Enter(c)
       IN /\ RanFrom(r, was, c, "update")
          /\ navigationInterval' = IF r.result = "destinationReached" THEN "off"
                                   ELSE navigationInterval
    /\ UNCHANGED << phase, currentLocation, isNavigating >>

\* the audio a suspended call awaits has answered
Resume(c) ==
    /\ c \in calls
    /\ c.pc \notin {"locating", "starting"}
    /\ LET r == Continue(c)
       IN /\ Ran(r, c, "resume")
          /\ navigationInterval' = IF r.result = "destinationReached" THEN "off"
                                   ELSE navigationInterval
    /\ UNCHANGED << phase, currentLocation, isNavigating >>

OnDisconnected ==
    /\ phase = "running"
    /\ phase' = "disconnected"
    /\ navigationInterval' = "off"
    /\ StopNavigation
    /\ UNCHANGED << currentLocation, isNavigating, calls >>

\* one second passes; the interval's callback for the second that ends has run
Second ==
    /\ navigationInterval # "due"
    /\ Tick
    /\ navigationInterval' = IF navigationInterval = "waiting" THEN "due" ELSE "off"
    /\ UNCHANGED << phase, currentLocation, isNavigating, calls >>

NextDriver ==
    \/ Connect /\ UNCHANGED << guidanceVars, functionVars >>
    \/ ConnectWithoutLocation /\ UNCHANGED << guidanceVars, functionVars >>
    \/ IntervalFallback /\ UNCHANGED << guidanceVars, functionVars >>
    \/ \E was \in calls : \E location \in FixSet :
          FallbackLocated(was, location) /\ UNCHANGED << guidanceVars, functionVars >>
    \/ \E was \in calls :
          FallbackFailed(was) /\ UNCHANGED << guidanceVars, functionVars >>
    \/ \E was \in calls :
          FallbackStarted(was) /\ UNCHANGED << guidanceVars, functionVars >>
    \/ \E data \in FixSet : OnLocation(data) /\ UNCHANGED << guidanceVars, functionVars >>
    \/ IntervalCallback /\ UNCHANGED << guidanceVars, functionVars >>
    \/ \E c \in calls : Resume(c) /\ UNCHANGED << guidanceVars, functionVars >>
    \/ OnDisconnected /\ UNCHANGED << guidanceVars, functionVars >>
    \/ Second /\ UNCHANGED << guidanceVars, functionVars >>

SpecDriver == Init /\ [][NextDriver]_vars

(***************************************************************************)
(* TurnGuidanceFramework.  Positions are whole metres along one line       *)
(* (geolib's getDistance returns whole metres); a segment is its endPoint  *)
(* and whether it has a turnPoint, which lies at the endPoint.  Volumes    *)
(* are numerators over VolumeUnit: the ramp divides by                     *)
(* TURN_ALERT_START_M - TURN_ALERT_MAX_VOL_M = 28 and the volumes are      *)
(* tenths, so with 280 every value is an integer.                          *)
(***************************************************************************)
TURN_ALERT_START_M == 30
TURN_ALERT_MAX_VOL_M == 2
VolumeUnit == 280
MIN_VOL == 56
MAX_VOL == 280
SegmentEndM == 5

GuidanceRouteSet ==
    { <<>>,
      << [endPoint |-> 37, turnPoint |-> TRUE], [endPoint |-> 40, turnPoint |-> TRUE] >>,
      << [endPoint |-> 37, turnPoint |-> FALSE], [endPoint |-> 40, turnPoint |-> TRUE] >> }

LatLonSet == { 6, 7, 21, 37, 38, 39, 40 }

Clamp(value, min, max) ==
    LET low == IF value > min THEN value ELSE min
    IN IF low < max THEN low ELSE max

GuidanceDistance(from, to) == IF from >= to THEN from - to ELSE to - from

\* the ramp without the near-field test
CalculateAlertVolumeRampOnly(distanceToTurn) ==
    MIN_VOL + (TURN_ALERT_START_M - TURN_ALERT_MAX_VOL_M
               - (distanceToTurn - TURN_ALERT_MAX_VOL_M))
              * ((MAX_VOL - MIN_VOL) \div (TURN_ALERT_START_M - TURN_ALERT_MAX_VOL_M))

\* ratio is held as its numerator over TURN_ALERT_START_M - TURN_ALERT_MAX_VOL_M
CalculateAlertVolume(distanceToTurn) ==
    IF distanceToTurn <= TURN_ALERT_MAX_VOL_M THEN MAX_VOL
    ELSE LET ratio == Clamp(distanceToTurn - TURN_ALERT_MAX_VOL_M, 0,
                            TURN_ALERT_START_M - TURN_ALERT_MAX_VOL_M)
         IN MIN_VOL + (TURN_ALERT_START_M - TURN_ALERT_MAX_VOL_M - ratio)
                      * ((MAX_VOL - MIN_VOL)
                         \div (TURN_ALERT_START_M - TURN_ALERT_MAX_VOL_M))

GuidanceDid(op) == [NoGuidanceOut EXCEPT !.op = op]

Initialize ==
    /\ guidance' = [guidance EXCEPT !.locationUnsubscribe = TRUE, !.isActive = TRUE]
    /\ guidanceOut' = GuidanceDid("initialize")
    /\ UNCHANGED timers

\* setInterval returns a timer that no running timer has
NewTimer == CHOOSE t \in 1 .. MaxTimers : t \notin timers

\* setRoute, and for a route with segments startNavigation and startAlertLoop
SetRoute(routeSegments) ==
    IF Len(routeSegments) > 0
    THEN /\ Cardinality(timers) < MaxTimers
         /\ guidance' = [guidance EXCEPT !.route = routeSegments,
                                         !.isNavigating = TRUE,
                                         !.currentSegmentIndex = 0,
                                         !.alertTimer = NewTimer]
         /\ timers' = timers \cup {NewTimer}
         /\ guidanceOut' = GuidanceDid("setRoute")
    ELSE /\ guidance' = [guidance EXCEPT !.route = routeSegments]
         /\ guidanceOut' = GuidanceDid("setRoute")
         /\ UNCHANGED timers

\* updateDistanceToNextTurn for the segment of index i
DistanceToNextTurn(g, location, i) ==
    IF i >= Len(g.route) THEN Infinity
    ELSE IF ~g.route[i + 1].turnPoint THEN Infinity
    ELSE GuidanceDistance(location, g.route[i + 1].endPoint)

\* a segment counted as reached from the distance at which alerts start
SegmentReachedInAlertRange(distanceToEnd) == distanceToEnd <= TURN_ALERT_START_M

SegmentReached(distanceToEnd) == distanceToEnd <= SegmentEndM

\* completeNavigation plays the arrival alert
ArrivalPlayed(location) ==
    /\ guidance.isNavigating
    /\ guidance.currentSegmentIndex < Len(guidance.route)
    /\ SegmentReached(GuidanceDistance(location,
            guidance.route[guidance.currentSegmentIndex + 1].endPoint))
    /\ guidance.currentSegmentIndex + 1 >= Len(guidance.route)

\* the onLocation callback: updateLocation, checkSegmentCompletion and
\* advanceToNextSegment
UpdateLocation(location) ==
    /\ guidance.locationUnsubscribe
    /\ guidanceOut' = [GuidanceDid("location") EXCEPT
                          !.location = location,
                          !.arrival = ArrivalPlayed(location)]
    /\ UNCHANGED timers
    /\ IF ~guidance.isNavigating \/ Len(guidance.route) = 0
       THEN UNCHANGED guidance
       ELSE LET i == guidance.currentSegmentIndex
                measured == [guidance EXCEPT !.distanceToNextTurn =
                                               DistanceToNextTurn(guidance, location, i)]
            IN IF i >= Len(guidance.route) THEN guidance' = measured
               ELSE IF ~SegmentReached(GuidanceDistance(location,
                                           guidance.route[i + 1].endPoint))
               THEN guidance' = measured
               ELSE IF i + 1 >= Len(guidance.route)
               THEN guidance' = [measured EXCEPT !.currentSegmentIndex = i + 1,
                                                 !.isNavigating = FALSE]
               ELSE guidance' = [measured EXCEPT
                                   !.currentSegmentIndex = i + 1,
                                   !.distanceToNextTurn =
                                       DistanceToNextTurn(guidance, location, i + 1)]

\* the callback of one interval timer: checkAndPlayTurnAlert
AlertTimerFires(t) ==
    /\ t \in timers
    /\ UNCHANGED << guidance, timers >>
    /\ LET d == guidance.distanceToNextTurn
           i == guidance.currentSegmentIndex
           silent == [GuidanceDid("alert") EXCEPT !.d = d]
       IN IF ~guidance.isActive \/ ~guidance.isNavigating THEN guidanceOut' = silent
          ELSE IF d > TURN_ALERT_START_M THEN guidanceOut' = silent
          ELSE IF i >= Len(guidance.route) THEN guidanceOut' = silent
          ELSE IF ~guidance.route[i + 1].turnPoint THEN guidanceOut' = silent
          ELSE guidanceOut' = [silent EXCEPT !.volume = CalculateAlertVolume(d),
                                             !.played = TRUE]

PauseNavigation ==
    /\ guidance' = [guidance EXCEPT !.isNavigating = FALSE]
    /\ guidanceOut' = GuidanceDid("pause")
    /\ UNCHANGED timers

ResumeNavigation ==
    /\ guidance' = IF Len(guidance.route) > 0
                   THEN [guidance EXCEPT !.isNavigating = TRUE]
                   ELSE guidance
    /\ guidanceOut' = GuidanceDid("resume")
    /\ UNCHANGED timers

\* stop: clearInterval(this.alertTimer), the unsubscription
GuidanceStop ==
    /\ guidance' = [guidance EXCEPT !.isActive = FALSE, !.isNavigating = FALSE,
                                    !.alertTimer = NoTimer,
                                    !.locationUnsubscribe = FALSE]
    /\ timers' = timers \ {guidance.alertTimer}
    /\ guidanceOut' = GuidanceDid("stop")

NextGuidance ==
    \/ Initialize /\ UNCHANGED << navVars, driverVars, functionVars >>
    \/ \E routeSegments \in GuidanceRouteSet :
          SetRoute(routeSegments) /\ UNCHANGED << navVars, driverVars, functionVars >>
    \/ \E location \in LatLonSet :
          UpdateLocation(location) /\ UNCHANGED << navVars, driverVars, functionVars >>
    \/ \E t \in timers :
          AlertTimerFires(t) /\ UNCHANGED << navVars, driverVars, functionVars >>
    \/ PauseNavigation /\ UNCHANGED << navVars, driverVars, functionVars >>
    \/ ResumeNavigation /\ UNCHANGED << navVars, driverVars, functionVars >>
    \/ GuidanceStop /\ UNCHANGED << navVars, driverVars, functionVars >>

SpecGuidance == Init /\ [][NextGuidance]_vars

(***************************************************************************)
(* bearingToDirection (src/unnamed/part_003), bearings in tenths of a      *)
(* degree, each bearing of [0, 360) an initial state.                      *)
(***************************************************************************)
BearingSet == 0 .. 3599

\* every window closed at its upper end instead of its lower end
BearingToDirectionUpperClosed(b) ==
    IF b > 3375 \/ b <= 225 THEN "North"
    ELSE IF b > 225 /\ b <= 675 THEN "Northeast"
    ELSE IF b > 675 /\ b <= 1125 THEN "East"
    ELSE IF b > 1125 /\ b <= 1575 THEN "Southeast"
    ELSE IF b > 1575 /\ b <= 2025 THEN "South"
    ELSE IF b > 2025 /\ b <= 2475 THEN "Southwest"
    ELSE IF b > 2475 /\ b <= 2925 THEN "West"
    ELSE IF b > 2925 /\ b <= 3375 THEN "Northwest"
    ELSE "North"

BearingToDirection(b) ==
    IF b >= 3375 \/ b < 225 THEN "North"
    ELSE IF b >= 225 /\ b < 675 THEN "Northeast"
    ELSE IF b >= 675 /\ b < 1125 THEN "East"
    ELSE IF b >= 1125 /\ b < 1575 THEN "Southeast"
    ELSE IF b >= 1575 /\ b < 2025 THEN "South"
    ELSE IF b >= 2025 /\ b < 2475 THEN "Southwest"
    ELSE IF b >= 2475 /\ b < 2925 THEN "West"
    ELSE IF b >= 2925 /\ b < 3375 THEN "Northwest"
    ELSE "North"

InitBearing ==
    /\ InitNavigation /\ InitGuidance /\ StepIdle
    /\ bearing \in BearingSet
    /\ direction = "none"

BearingToDirectionCall ==
    /\ direction = "none"
    /\ direction' = BearingToDirection(bearing)
    /\ UNCHANGED << bearing, stepInput, stepResult >>

NextBearing ==
    BearingToDirectionCall /\ UNCHANGED << navVars, driverVars, guidanceVars >>

SpecBearing == InitBearing /\ [][NextBearing]_vars

(***************************************************************************)
(* isTurnStep, getTurnDirection and the alert checkTurnAlerts speaks for   *)
(* a step whose flags are clear, for every maneuver code and text of       *)
(* StepInputSet.                                                           *)
(***************************************************************************)
ManeuverSet ==
    { "", "turn-left", "turn-right", "uturn-left", "uturn-right", "straight", "merge" }

\* 131 ft, 25 ft and 15 ft from the step end, in centimetres
StepDistanceSet == { 4000, 762, 457 }

StepInputSet ==
    { [ step |-> [end_location |-> 0, maneuver |-> maneuver, html |-> html],
        distance |-> distance ] :
        maneuver \in ManeuverSet,
        html \in SUBSET {"turn left", "turn right"},
        distance \in StepDistanceSet }

InitSteps ==
    /\ InitNavigation /\ InitGuidance /\ BearingIdle
    /\ stepInput \in StepInputSet
    /\ stepResult = NoStepResult

ClassifyStep ==
    /\ stepResult = NoStepResult
    /\ stepResult' =
          [ isTurn |-> IsTurnStep(stepInput.step),
            direction |-> GetTurnDirection(stepInput.step),
            alert |-> IF ~AlertsApply(stepInput.step) THEN "silent"
                      ELSE IF Alert100Due(MetersToFeet(stepInput.distance), ClearAlerts)
                      THEN "100 feet"
                      ELSE IF Alert20Due(MetersToFeet(stepInput.distance), ClearAlerts)
                      THEN "20 feet"
                      ELSE "silent" ]
    /\ UNCHANGED << bearing, direction, stepInput >>

NextSteps ==
    ClassifyStep /\ UNCHANGED << navVars, driverVars, guidanceVars >>

SpecSteps == InitSteps /\ [][NextSteps]_vars

(***************************************************************************)
(* Properties.                                                             *)
(***************************************************************************)
DistanceInFeetTo(fix, idx) ==
    MetersToFeet(DistanceToEnd(At(fix), StepAt(idx)))

\* the step is one updateNavigation call (out is what the call returned and
\* emitted; the clock leaves out as it is)
UpdateStep == out'.op = "update" /\ now' = now

StepsVisitedInOrder ==
    trail # <<>> =>
        /\ Len(trail) = currentStepIndex + 1
        /\ \A k \in 1 .. Len(trail) : trail[k] = k - 1
        /\ currentStepIndex <= Len(routeSteps)
        /\ arrivals = IF currentStepIndex = Len(routeSteps) THEN 1 ELSE 0

StepsVisitedInOrderWitness ==
    /\ Len(routeSteps) = 3
    /\ trail = << 0, 1, 2, 3 >>
    /\ arrivals = 1
    /\ out.op = "update" /\ ~out.active

\* C3: in every reachable state, isActive implies that the route is ready
\* and 0 <= currentStepIndex <= number of route steps.
ActiveImpliesRouteReady ==
    isActive =>
        /\ IsRouteReady
        /\ 0 <= currentStepIndex
        /\ currentStepIndex <= Len(routeSteps)

\* C4: while isActive is true no operation makes currentStepIndex smaller.
IndexNeverDecreasesWhileActive ==
    [][ isActive => currentStepIndex' >= currentStepIndex ]_vars

\* C5: the updateNavigation call that makes currentStepIndex equal to the
\* number of route steps leaves isActive false, and no state between calls
\* has a ready route with currentStepIndex = number of steps and isActive.
ArrivalDeactivates ==
    /\ (out.op = "update" /\ out.stepCompleted
        /\ currentStepIndex = Len(routeSteps)) => ~isActive
    /\ ~(isActive /\ IsRouteReady /\ currentStepIndex = Len(routeSteps))

\* C6: startNavigation with a route that is not ready reports the error,
\* leaves isActive false and currentStepIndex unchanged; a zero-step route
\* is not ready.
StartRejectedWhenNotReady ==
    [][ /\ (StartNavigation /\ ~IsRouteReady) =>
             /\ out'.error = "route not loaded"
             /\ ~isActive'
             /\ currentStepIndex' = currentStepIndex
        /\ (Len(routeSteps) = 0 => ~IsRouteReady) ]_vars

\* C7: one updateNavigation call raises currentStepIndex by at most 1, only
\* when the fix is within the arrival threshold of the end of the step that
\* was current when the call began, and the distance it reports is the one
\* to that step's end.
AtMostOneStepPerUpdate ==
    [][ /\ currentStepIndex' <= currentStepIndex + 1
        /\ currentStepIndex' = currentStepIndex + 1 =>
             /\ out'.op = "update"
             /\ currentStepIndex < Len(routeSteps)
             /\ DistanceInFeetTo(out'.fix, currentStepIndex) <= Feet(arrivalThreshold)
        /\ (UpdateStep /\ isActive /\ currentStepIndex < Len(routeSteps)) =>
              out'.d = DistanceToEnd([lat |-> out'.fix, lng |-> out'.lng],
                                     StepAt(currentStepIndex)) ]_vars

\* a fix within the arrival threshold of the completed step's end and of the
\* next step's end: the index moved by one only
AtMostOneStepPerUpdateWitness ==
    /\ out.op = "update" /\ out.stepCompleted
    /\ currentStepIndex = out.idx + 1
    /\ currentStepIndex < Len(routeSteps)
    /\ DistanceInFeetTo(out.fix, out.idx) <= Feet(arrivalThreshold)
    /\ DistanceInFeetTo(out.fix, currentStepIndex) <= Feet(arrivalThreshold)

\* C8: a spoken alert is emitted only for a turn step; the 100 ft alert only
\* on a fix with 20 ft < d <= 100 ft, the 20 ft alert only on a fix with
\* d <= 20 ft, and none for d > 100 ft.
AlertsOnlyInTheirBand ==
    (out.op = "update" /\ out.active) =>
        LET d == DistanceInFeetTo(out.fix, out.idx)
        IN /\ (out.alert100 \/ out.alert20) =>
                  IsTurnStep(StepAt(out.idx))
           /\ out.alert100 => (d > Feet(20) /\ d <= Feet(100))
           /\ out.alert20 => d <= Feet(20)
           /\ d > Feet(100) => (~out.alert100 /\ ~out.alert20)

AlertsOnlyInTheirBandWitness ==
    /\ out.op = "update" /\ out.active /\ out.alert20
    /\ DistanceInFeetTo(out.fix, out.idx) <= Feet(20)
    /\ alertsShown[out.idx].alert20Feet

\* C9 as stated: on a one-turn-step route, with fixes 200 m, 120 m, 25 ft,
\* 15 ft, 3 ft from the step end, the 100 ft alert never fires and the only
\* spoken alert is the 20 ft alert, once, on the fourth (15 ft) fix.
ScenarioOnlyNearAlert ==
    scen.n = 5 => (scen.far = {} /\ scen.near = {4})

\* C9 amended: in that scenario the 100 ft alert fires exactly once, on the
\* third (25 ft) fix, and the 20 ft alert exactly once, on the fourth
\* (15 ft) fix.
ScenarioFarThenNearAlert ==
    scen.n >= 0 =>
        /\ scen.far = (IF scen.n >= 3 THEN {3} ELSE {})
        /\ scen.near = (IF scen.n >= 4 THEN {4} ELSE {})

ScenarioFarThenNearAlertWitness ==
    scen.n = 5 /\ scen.far = {3} /\ scen.near = {4}

\* C10 as stated: in that scenario stepCompleted = true is reported on the
\* fifth (3 ft) fix and on no earlier fix.
ScenarioCompletesOnLastFix ==
    scen.n = 5 => scen.done = {5}

\* C10 amended: in that scenario stepCompleted = true is reported on the
\* fourth (15 ft) fix, the first within the 20 ft arrival threshold, and on
\* no other fix; the 3 ft fix finds the session inactive.
ScenarioCompletesOnFirstFixInThreshold ==
    scen.n >= 0 =>
        scen.done = (IF scen.n >= 4 THEN {4} ELSE {})

ScenarioCompletesOnFirstFixInThresholdWitness ==
    /\ scen.n = 5 /\ scen.done = {4}
    /\ out.op = "update" /\ ~out.active /\ ~out.stepCompleted

\* the step is an updateNavigation(f) that directly follows an updateNavigation(f)
RepeatedUpdate ==
    out.op = "update" /\ UpdateStep /\ out'.fix = out.fix

\* C11 as stated: a second updateNavigation(f) right after the first leaves
\* the session as the first left it: it fires no speech alert and does not
\* advance currentStepIndex again, also when f lies within the arrival
\* threshold of two consecutive step ends.
RepeatedFixIsIdempotent ==
    [][ RepeatedUpdate =>
             /\ currentStepIndex' = currentStepIndex
             /\ isActive' = isActive
             /\ alertsShown' = alertsShown
             /\ ~out'.alert100 /\ ~out'.alert20 ]_vars

\* C11 amended: a second updateNavigation(f) right after the first changes
\* nothing (index, isActive, alert flags) and speaks no alert when the first
\* call did not complete a step; when the first call completed step i the
\* second acts on step i+1: any alert it speaks is one of step i+1, and it
\* advances again only if f is also within the arrival threshold of the end
\* of step i+1.
RepeatedFixActsOnNewStepOnly ==
    [][ RepeatedUpdate =>
             /\ ~out.stepCompleted =>
                   /\ currentStepIndex' = currentStepIndex
                   /\ isActive' = isActive
                   /\ alertsShown' = alertsShown
                   /\ ~out'.alert100 /\ ~out'.alert20
             /\ (out'.alert100 \/ out'.alert20) =>
                   (out.stepCompleted /\ out'.idx = out.idx + 1)
             /\ currentStepIndex' # currentStepIndex =>
                   /\ out.stepCompleted
                   /\ currentStepIndex' = currentStepIndex + 1
                   /\ DistanceInFeetTo(out'.fix, currentStepIndex)
                         <= Feet(arrivalThreshold) ]_vars

\* the same fix again inside the 100 ft band of a turn step: nothing spoken
RepeatedFixActsOnNewStepOnlyWitness ==
    /\ out.op = "update" /\ out.repeat /\ out.active /\ out.turn
    /\ ~out.stepCompleted /\ ~out.alert100 /\ ~out.alert20
    /\ DistanceInFeetTo(out.fix, out.idx) <= Feet(turnAlert100Feet)
    /\ alertsShown[out.idx].alert100Feet

FlagCleared(j) ==
    \/ alertsShown[j].alert100Feet /\ ~alertsShown'[j].alert100Feet
    \/ alertsShown[j].alert20Feet /\ ~alertsShown'[j].alert20Feet

\* C12: the updateNavigation that completes a non-final step i clears the
\* alert flags of index i+1 and of no other index (those of i can only have
\* been set by the same call, all others are unchanged), and no other
\* operation of an active session clears a flag.
FlagsClearedOnlyOnAdvance ==
    [][ /\ (UpdateStep /\ currentStepIndex' = currentStepIndex + 1
              /\ currentStepIndex' < Len(routeSteps)) =>
                 /\ alertsShown'[currentStepIndex'] = ClearAlerts
                 /\ \A j \in DOMAIN alertsShown :
                       /\ j # currentStepIndex' => ~FlagCleared(j)
                       /\ j \notin {currentStepIndex, currentStepIndex'} =>
                             alertsShown'[j] = alertsShown[j]
        /\ isActive =>
             \A j \in DOMAIN alertsShown :
                 FlagCleared(j) =>
                     (currentStepIndex' = j /\ currentStepIndex = j - 1
                      /\ out'.op = "update") ]_vars

SessionUnchanged ==
    UNCHANGED << routeSteps, isRouteLoaded, currentStepIndex, isActive,
                 alertsShown, lastBeepTime >>

\* C13: updateNavigation on a session that is not active changes nothing,
\* emits no speech and no tone, and returns stepCompleted = false,
\* destinationReached = false with a snapshot whose isActive is false.
InactiveUpdateIsNoOp ==
    [][ (UpdateStep /\ ~isActive) =>
             /\ SessionUnchanged
             /\ out'.beep = -1 /\ ~out'.alert100 /\ ~out'.alert20
             /\ out'.say = "none"
             /\ ~out'.stepCompleted /\ ~out'.destinationReached
             /\ ~out'.active ]_vars

\* a stopped session in mid-route is given a fix at the current step's end
InactiveUpdateIsNoOpWitness ==
    /\ out.op = "update" /\ ~out.active /\ ~isActive
    /\ IsRouteReady
    /\ currentStepIndex > 0 /\ currentStepIndex < Len(routeSteps)
    /\ DistanceInFeetTo(out.fix, currentStepIndex) <= Feet(arrivalThreshold)

\* C14: whatever the audio session does with the calls of an
\* updateNavigation (plays, reports failure, throws, is not attached), the
\* call returns normally, the step advances exactly when the fix is within
\* the arrival threshold, and the flag of every alert attempted is set.
AudioFailureIsContained ==
    [][ (UpdateStep /\ isActive /\ currentStepIndex < Len(routeSteps)) =>
             LET arrived == DistanceInFeetTo(out'.fix, currentStepIndex)
                               <= Feet(arrivalThreshold)
             IN /\ out'.error = "none"
                /\ out'.stepCompleted = arrived
                /\ currentStepIndex' = IF arrived THEN currentStepIndex + 1
                                       ELSE currentStepIndex
                /\ isActive' = ~(arrived /\ currentStepIndex + 1 >= Len(routeSteps))
                /\ out'.alert100 => alertsShown'[currentStepIndex].alert100Feet
                /\ out'.alert20 => alertsShown'[currentStepIndex].alert20Feet ]_vars

\* the speak call of the 20 ft alert threw: flag set, step completed
AudioFailureIsContainedWitness ==
    /\ out.op = "update" /\ out.audio = "threw"
    /\ out.alert20 /\ out.stepCompleted /\ out.error = "none"
    /\ alertsShown[out.idx].alert20Feet
    /\ currentStepIndex = out.idx + 1

\* C17: after refreshRoute the session is inactive until startNavigation.
RefreshLeavesInactive ==
    out.op = "refresh" => ~isActive

\* C18: the volume of every proximity tone is within [0, 1] (0 .. the beep
\* range, in the model's unit), it does not increase with the distance, and
\* no tone of non-zero volume is played at or beyond 200 m.
ToneVolumeScalesWithDistance ==
    [][ UpdateStep =>
             /\ out'.beep # -1 =>
                   /\ out'.beep >= 0 /\ out'.beep <= beepStartMeters * 100
                   /\ out'.d >= beepStartMeters * 100 => out'.beep = 0
             /\ (out'.active /\ out'.d > beepStartMeters * 100) => out'.beep = -1
             /\ (out.op = "update" /\ out.beep # -1 /\ out'.beep # -1) =>
                   /\ out'.d >= out.d => out'.beep <= out.beep
                   /\ out'.d <= out.d => out'.beep >= out.beep ]_vars

\* a tone at exactly 200 m after a louder tone nearer by
ToneVolumeScalesWithDistanceWitness ==
    /\ out.op = "update" /\ out.beep = 0
    /\ out.d = beepStartMeters * 100
    /\ now >= 2 * beepPeriodMs

\* C19: within one active session two proximity tones are dispatched at
\* least beepPeriodMs apart.
TonesAtLeastBeepPeriodApart ==
    [][ (toneAt # -1 /\ toneAt' # -1 /\ toneAt' # toneAt) =>
           toneAt' - toneAt >= beepPeriodMs ]_vars

ToneWasDue(f) ==
    /\ isActive /\ currentStepIndex < Len(routeSteps)
    /\ DistanceToEnd(At(f), StepAt(currentStepIndex))
          <= beepStartMeters * 100
    /\ now - lastBeepTime >= beepPeriodMs

\* C20 as stated: whenever the session is active, the current step's end is
\* within 200 m and the beep period has elapsed, updateNavigation emits a
\* tone, for a turn step or not.
ToneForAnyStep ==
    [][ (UpdateStep /\ ToneWasDue(out'.fix)) => out'.beep # -1 ]_vars

\* C20 amended: under those conditions updateNavigation emits a tone if the
\* current step is a turn step, and never emits one for a step that is not.
ToneForTurnStepsOnly ==
    [][ UpdateStep =>
             /\ (ToneWasDue(out'.fix) /\ IsTurnStep(StepAt(currentStepIndex))) =>
                    out'.beep # -1
             /\ (isActive /\ currentStepIndex < Len(routeSteps)
                 /\ ~IsTurnStep(StepAt(currentStepIndex))) => out'.beep = -1 ]_vars

\* a step that is not a turn, its end within 200 m, no tone ever played
ToneForTurnStepsOnlyWitness ==
    /\ out.op = "update" /\ out.active /\ ~out.turn
    /\ out.d <= beepStartMeters * 100
    /\ out.beep = -1
    /\ lastBeepTime = 0 /\ toneAt = -1

UpdatesInFlight == { c \in calls : c.pc \notin {"locating", "starting"} }

\* C15: in the driver at most one updateNavigation call is in flight.
AtMostOneUpdateInFlight ==
    Cardinality(UpdatesInFlight) <= 1

\* C16: once the session is disconnected (stopNavigation has run), a call
\* that was suspended at an await dispatches nothing more and changes
\* neither currentStepIndex nor the alert flags.
StoppedSessionStaysQuiet ==
    [][ \A c \in calls :
          (Resume(c) /\ phase = "disconnected") =>
             /\ currentStepIndex' = currentStepIndex
             /\ alertsShown' = alertsShown
             /\ ~out'.alert100 /\ ~out'.alert20 /\ out'.beep = -1
             /\ out'.say = "none" ]_vars

\* C21: updateNavigation with a fix whose longitude is out of range gives
\* an InvalidCoordinate error, completes no step, fires no alert or tone
\* and leaves currentStepIndex, isActive, the alert flags and lastBeepTime
\* as they were.
InvalidFixIsDropped ==
    [][ (UpdateStep /\ (out'.lng < -180 \/ out'.lng > 180)) =>
           /\ out'.error = "InvalidCoordinate"
           /\ ~out'.stepCompleted /\ ~out'.destinationReached
           /\ ~out'.alert100 /\ ~out'.alert20 /\ out'.beep = -1
           /\ SessionUnchanged ]_vars

\* C22: after a loadRouteData whose provider fetch failed, nothing was
\* raised and isRouteReady() is false.
ProviderFailureLeavesRouteNotReady ==
    (out.op \in {"load", "refresh"} /\ out.fetch \in {"noKey", "failed"}) =>
        /\ out.error = "none"
        /\ ~IsRouteReady

\* the maneuver of a step as the specification classifies it: from the
\* explicit code when the step has one, from the keywords of the text when
\* it has none
ManeuverOf(step) ==
    IF step.maneuver # ""
    THEN CASE step.maneuver = "turn-left" -> "left"
           [] step.maneuver = "turn-right" -> "right"
           [] step.maneuver \in {"uturn-left", "uturn-right"} -> "u-turn"
           [] step.maneuver = "straight" -> "straight"
           [] OTHER -> "unknown"
    ELSE IF Includes(step, "turn left") THEN "left"
    ELSE IF Includes(step, "turn right") THEN "right"
    ELSE "unknown"

Classified == stepResult # NoStepResult

\* C23: a step is treated as a turn step (speech-alerted) if and only if
\* its maneuver is left, right or u-turn; a step classified straight or
\* unknown never produces a turn alert.
TurnStepIffLeftRightOrUTurn ==
    Classified =>
        /\ stepResult.isTurn <=>
               ManeuverOf(stepInput.step) \in {"left", "right", "u-turn"}
        /\ ManeuverOf(stepInput.step) \in {"straight", "unknown"} =>
               stepResult.alert = "silent"

\* C24: for a step that carries an explicit maneuver code the announced
\* direction is the one the code alone gives (the direction of the same
\* step with an empty instruction text); the keywords of the text decide
\* only when there is no code.
DirectionFromCodeAlone ==
    (Classified /\ stepInput.step.maneuver # "") =>
        stepResult.direction =
            GetTurnDirection([stepInput.step EXCEPT !.html = {}])

\* C25: arrival is reported once: an updateNavigation call made after the
\* call that returned destinationReached = true, and before a new
\* startNavigation, returns a result and a snapshot that do not report the
\* destination reached, and announces no arrival.
ArrivalReportedOnce ==
    [][ (UpdateStep /\ arrivals = 1 /\ ~isActive /\ trail # <<>>
             /\ currentStepIndex = Len(routeSteps)) =>
            /\ ~out'.destinationReached
            /\ ~out'.statusDestinationReached
            /\ out'.say = "none" ]_vars

StopStep == out'.op = "stop" /\ now' = now

\* C26: stopNavigation is idempotent: from any state (active, arrived or
\* already inactive) it leaves isActive false and changes neither
\* currentStepIndex, the route nor the alert flags, and a second call
\* changes nothing further.
StopIsIdempotent ==
    [][ StopStep =>
            /\ ~isActive'
            /\ currentStepIndex' = currentStepIndex
            /\ routeSteps' = routeSteps
            /\ isRouteLoaded' = isRouteLoaded
            /\ alertsShown' = alertsShown
            /\ (out.op = "stop" =>
                    << isActive, lastBeepTime >>' = << isActive, lastBeepTime >>) ]_vars

StopIsIdempotentWitness ==
    /\ out.op = "stop"
    /\ ~isActive
    /\ currentStepIndex > 0
    /\ currentStepIndex < Len(routeSteps)
    /\ \E i \in DOMAIN alertsShown : alertsShown[i].alert20Feet


AtMostOneAlertTimer ==
    /\ Cardinality(timers) <= 1
    /\ guidanceOut.op = "stop" => timers = {}

Compass ==
    << "North", "Northeast", "East", "Southeast",
       "South", "Southwest", "West", "Northwest" >>

\* C29: bearingToDirection maps every bearing of [0, 360) to one of the 8
\* compass points, the point whose 45-degree window, centred on the point,
\* holds the bearing; a boundary 22.5 + k*45 belongs to the window that
\* starts there (22.5 -> Northeast, 337.5 -> North).
BearingInItsWindow ==
    direction # "none" =>
        /\ direction = Compass[(((bearing + 225) \div 450) % 8) + 1]
        /\ Cardinality({ k \in 1 .. 8 : Compass[k] = direction }) = 1

BearingInItsWindowWitness ==
    /\ bearing = 225
    /\ direction = "Northeast"


\* C30: an active session on a route of N steps whose fix stream delivers,
\* for each step in order, a fix within 20 ft of the end of the current
\* step (updates taken one at a time) eventually has
\* currentStepIndex = N and isActive false, after exactly N step
\* completions.
ActiveSessionEventuallyArrives ==
    isActive ~> ( /\ ~isActive
                  /\ currentStepIndex = Len(routeSteps)
                  /\ Len(trail) = Len(routeSteps) + 1
                  /\ arrivals = 1 )

ActiveSessionEventuallyArrivesWitness ==
    /\ ~isActive
    /\ Len(routeSteps) = 2
    /\ trail = << 0, 1, 2 >>
    /\ arrivals = 1
    /\ out.destinationReached


StartStep == out'.op = "start" /\ out'.error = "none" /\ now' = now

\* C34: every time a session becomes active through startNavigation, a
\* restart after stopNavigation or after arrival on the same loaded route
\* included, the alert flags of step 0 are all false.
FirstStepArmedAtStart ==
    [][ StartStep => (isActive' /\ alertsShown'[StartIndex] = ClearAlerts) ]_vars

\* C31: for a turn step the 20 ft speech alert fires on exactly the
\* updateNavigation call that completes the step: a call that completes a
\* turn step speaks its 20 ft alert, a call that speaks the 20 ft alert
\* completes the step, and the 100 ft alert of a step is not spoken after
\* the 20 ft alert of the same visit.
Alert20OnCompletingCall ==
    [][ UpdateStep =>
            /\ (out'.stepCompleted /\ out'.turn) => out'.alert20
            /\ out'.alert20 => out'.stepCompleted
            /\ out'.alert100 => spoken[out'.idx].alert20Feet = 0 ]_vars


\* C36: in TurnGuidanceFramework, in every reachable state isNavigating
\* implies that the route is not empty and that
\* 0 <= currentSegmentIndex < route.length.
NavigatingImpliesSegmentInRoute ==
    guidance.isNavigating =>
        /\ Len(guidance.route) > 0
        /\ 0 <= guidance.currentSegmentIndex
        /\ guidance.currentSegmentIndex < Len(guidance.route)

\* C37: in TurnGuidanceFramework a location update advances
\* currentSegmentIndex by at most one segment and only from a location
\* within 5 m of the end of the current segment; nothing else moves the
\* index but setRoute, which rewinds it; the arrival alert is played on the
\* update that moves the index to route.length and on no other call, so
\* once per route set and never again after a later update, pause or resume.
SegmentsAdvanceOneAtATime ==
    [][ LET i == guidance.currentSegmentIndex
            j == guidance'.currentSegmentIndex
        IN /\ j # i =>
                 \/ /\ guidanceOut'.op = "setRoute"
                    /\ j = 0
                 \/ /\ guidanceOut'.op = "location"
                    /\ j = i + 1
                    /\ i < Len(guidance.route)
                    /\ GuidanceDistance(guidanceOut'.location,
                                        guidance.route[i + 1].endPoint) <= 5
           /\ guidanceOut'.arrival <=>
                 /\ guidanceOut'.op = "location"
                 /\ i < Len(guidance.route)
                 /\ j = Len(guidance.route)
                 /\ guidance'.route = guidance.route ]_vars

SegmentsAdvanceOneAtATimeWitness ==
    /\ guidanceOut.arrival
    /\ guidanceOut.location = 40
    /\ guidance.currentSegmentIndex = 2
    /\ ~guidance.isNavigating


\* C38: for every route step isTurnStep(step) implies that
\* getTurnDirection(step) is 'left' or 'right', never 'unknown', so no
\* spoken alert is worded "Turn unknown in ... feet"; the isTurnStep and
\* turnDirection computed for the snapshot of a step agree in that sense.
TurnStepHasDirection ==
    Classified =>
        /\ stepResult.isTurn <=> stepResult.direction \in {"left", "right"}
        /\ stepResult.alert # "silent" => stepResult.direction # "unknown"

TurnStepHasDirectionWitness ==
    /\ Classified
    /\ stepInput.step.maneuver = "straight"
    /\ stepInput.step.html = {"turn right"}
    /\ stepResult.isTurn
    /\ stepResult.direction = "right"
    /\ stepResult.alert = "20 feet"


NewlySet(j) ==
    \/ alertsShown'[j].alert100Feet /\ ~alertsShown[j].alert100Feet
    \/ alertsShown'[j].alert20Feet /\ ~alertsShown[j].alert20Feet

\* C33: in every interleaving of overlapping updateNavigation calls an
\* alert flag is set only on the record of the step to whose end the call
\* measured its distance, and no call fails on the record of an index that
\* has none.
FlagsSetOnMeasuredStepOnly ==
    [][ (out'.op \in {"update", "resume"} /\ now' = now) =>
            /\ out'.error # "thrown"
            /\ \A j \in DOMAIN alertsShown : NewlySet(j) => j = out'.step ]_vars

\* C35: in the driver, for every interleaving of stream callbacks and
\* interval callbacks, the fallback location fetch included,
\* startNavigation is called at most once in a connected session (no call
\* follows an earlier one), and no step of the driver moves
\* currentStepIndex back.
StartedAtMostOncePerSession ==
    [][ /\ StartStep => trail = <<>>
        /\ currentStepIndex' >= currentStepIndex ]_vars

StartedAtMostOncePerSessionWitness ==
    /\ out.op = "location"
    /\ isNavigating
    /\ isActive
    /\ currentStepIndex > 0
    /\ trail = << StartIndex >>

====
